---- MODULE Spec2Model ----
(***************************************************************************)
(* Stock-movement demo: CSV text -> rows -> pivot -> per-symbol min-max    *)
(* normalisation -> sliding windows -> chronological split -> per-symbol   *)
(* accuracy.  The loader is StockDataLoader (parseCSV, preprocessData,     *)
(* minMaxNormalize, createSequences); the evaluator is                     *)
(* GRUModel.computeStockAccuracy.                                          *)
(*                                                                         *)
(* Representation.                                                         *)
(*  - A CSV field is a record [k, v]: k = "num" is a numeral whose value   *)
(*    is v, k = "str" is any other text (v is its rank in the              *)
(*    lexicographic order of strings, which is what Array.sort() uses),    *)
(*    k = "undef" is JavaScript's undefined.  Fields are held trimmed.     *)
(*  - A JavaScript number is a pair <<n, d>>: d > 0 is the rational n/d,   *)
(*    <<0,0>> is NaN, <<1,0>> is Infinity and <<-1,0>> is -Infinity.       *)
(*  - The CSV text is held after trim().split('\n'): its header line as    *)
(*    the sequence of column names and its other lines as sequences of     *)
(*    fields.  The empty text splits into the single line '' and so has    *)
(*    the header <<"">> and no data line.                                  *)
(***************************************************************************)
EXTENDS Integers, Sequences, FiniteSets, TLC

\* ------------------------------------------------------------------------
\* Bounds of the explored inputs
\* ------------------------------------------------------------------------
MaxDates == 18
MaxDefectSymbols == 2
MaxSamples == 2

\* file selections and train clicks in one session of the page
MaxUploads == 2

MaxRuns == 2

\* ------------------------------------------------------------------------
\* Program constants
\* ------------------------------------------------------------------------
sequenceLength == 12
predictionHorizon == 3
TargetLength == 30
FeatureLength == 20
daysAhead == 3
TenStocks == 10

\* this.trainTestSplit = 0.8, held as the fraction 4/5
trainTestSplit == <<4, 5>>

\* ------------------------------------------------------------------------
\* JavaScript numbers
\* ------------------------------------------------------------------------
NaN == <<0, 0>>

Num(n) == <<n, 1>>

IsNaN(a) == a[2] = 0 /\ a[1] = 0

IsFinite(a) == a[2] > 0

\* a > b in JavaScript: false as soon as one side is NaN
Gt(a, b) ==
    IF IsNaN(a) \/ IsNaN(b) THEN FALSE
    ELSE IF IsFinite(a) /\ IsFinite(b) THEN a[1] * b[2] > b[1] * a[2]
    ELSE IF IsFinite(a) THEN b[1] < 0
    ELSE IF IsFinite(b) THEN a[1] > 0
    ELSE a[1] > b[1]

\* a === b on numbers
NumEq(a, b) ==
    IF IsNaN(a) \/ IsNaN(b) THEN FALSE
    ELSE IF IsFinite(a) /\ IsFinite(b) THEN a[1] * b[2] = b[1] * a[2]
    ELSE a = b

\* a - b
Sub(a, b) ==
    IF IsNaN(a) \/ IsNaN(b) THEN NaN
    ELSE IF IsFinite(a) /\ IsFinite(b) THEN <<a[1] * b[2] - b[1] * a[2], a[2] * b[2]>>
    ELSE IF IsFinite(b) THEN a
    ELSE IF IsFinite(a) THEN <<-b[1], 0>>
    ELSE IF a[1] = b[1] THEN NaN ELSE a

Sign(n) == IF n > 0 THEN 1 ELSE IF n < 0 THEN -1 ELSE 0

\* a / b
Div(a, b) ==
    IF IsNaN(a) \/ IsNaN(b) THEN NaN
    ELSE IF IsFinite(a) /\ IsFinite(b) THEN
        IF b[1] = 0 THEN <<Sign(a[1]), 0>>
        ELSE IF b[1] > 0 THEN <<a[1] * b[2], a[2] * b[1]>>
        ELSE <<-(a[1] * b[2]), -(a[2] * b[1])>>
    ELSE IF IsFinite(b) THEN <<a[1] * (IF b[1] < 0 THEN -1 ELSE 1), 0>>
    ELSE IF IsFinite(a) THEN Num(0)
    ELSE NaN

\* x || 1 and x || 0 on a number: 0 and NaN are falsy
OrElse(a, dflt) == IF IsNaN(a) \/ (IsFinite(a) /\ a[1] = 0) THEN dflt ELSE a

\* Math.min(...xs) and Math.max(...xs) of a non-empty list: NaN if any is NaN
RECURSIVE MathMin(_)
MathMin(xs) ==
    IF Len(xs) = 1 THEN xs[1]
    ELSE LET m == MathMin(Tail(xs))
         IN  IF IsNaN(xs[1]) \/ IsNaN(m) THEN NaN
             ELSE IF Gt(m, xs[1]) THEN xs[1] ELSE m

RECURSIVE MathMax(_)
MathMax(xs) ==
    IF Len(xs) = 1 THEN xs[1]
    ELSE LET m == MathMax(Tail(xs))
         IN  IF IsNaN(xs[1]) \/ IsNaN(m) THEN NaN
             ELSE IF Gt(xs[1], m) THEN xs[1] ELSE m

\* ------------------------------------------------------------------------
\* CSV fields
\* ------------------------------------------------------------------------
Undefined == [k |-> "undef", v |-> 0]

NumField(n) == [k |-> "num", v |-> n]

StrField(r) == [k |-> "str", v |-> r]

\* parseFloat of a field
parseFloat(f) == IF f.k = "num" THEN Num(f.v) ELSE NaN

\* order used by Array.prototype.sort() without comparator: undefined last,
\* the others by their string order
SortsBefore(f, g) ==
    IF f.k = "undef" THEN FALSE
    ELSE IF g.k = "undef" THEN TRUE
    ELSE f.v < g.v

\* [...new Set(xs)]: the distinct elements in order of first occurrence
Distinct(xs) ==
    LET firsts == SelectSeq([i \in 1..Len(xs) |-> i],
                            LAMBDA i : \A j \in 1..(i - 1) : xs[j] # xs[i])
    IN  [k \in 1..Len(firsts) |-> xs[firsts[k]]]

Sorted(xs) == SortSeq(xs, SortsBefore)

Range(xs) == {xs[i] : i \in 1..Len(xs)}

\* the same function, held as an explicit table of its values
Table(f) == f @@ <<>>

\* ------------------------------------------------------------------------
\* The uploaded files that are explored
\* ------------------------------------------------------------------------
\* open and close price written in the file for date d and symbol s
FileOpen(pattern, d, s) ==
    IF pattern = "flat" /\ s = 1 THEN 5 ELSE (d * 5 + s) % 5

FileClose(pattern, d, s) ==
    IF pattern = "flat" /\ s = 1 THEN 5 ELSE (d * d + d * 3 + s * 2) % 7

HeaderOf(kind) ==
    CASE kind = "full"     -> <<"Date", "Symbol", "Open", "Close">>
      [] kind = "extra"    -> <<"Date", "Symbol", "Open", "Close", "Volume">>
      [] kind = "noClose"  -> <<"Date", "Symbol", "Open">>
      [] kind = "noSymbol" -> <<"Date", "Open", "Close">>

\* the data line of (d, s) under a header kind; f.defect alters the line of
\* (f.dDate, f.dSym)
FileLine(f, d, s) ==
    LET hit == f.defect # "none" /\ d = f.dDate /\ s = f.dSym
        op  == IF hit /\ f.defect = "nonnum" THEN StrField(0)
               ELSE NumField(FileOpen(f.pattern, d, s))
        cl  == NumField(FileClose(f.pattern, d, s))
        full == CASE f.header = "full"     -> <<StrField(d), StrField(s), op, cl>>
                  [] f.header = "extra"    -> <<StrField(d), StrField(s), op, cl, NumField(100)>>
                  [] f.header = "noClose"  -> <<StrField(d), StrField(s), op>>
                  [] f.header = "noSymbol" -> <<StrField(d), op, cl>>
    IN  IF hit /\ f.defect = "short" THEN SubSeq(full, 1, Len(full) - 1) ELSE full

\* a second line for the same date and symbol with other prices
RevisedLine(line) ==
    [line EXCEPT ![3] = NumField(line[3].v + 1), ![4] = NumField(line[4].v + 3)]

\* the text of a file: one line per (date, symbol), dates ascending or
\* descending, without the line of a "missing" cell, with the line of a "dup"
\* cell written twice, or with a "revised" cell followed by a second line of
\* other prices
FileText(f) ==
    LET n     == f.nDates * f.nSyms
        dOf(k) == ((k - 1) \div f.nSyms) + 1
        sOf(k) == ((k - 1) % f.nSyms) + 1
        pos(k) == IF f.order = "asc" THEN k ELSE n + 1 - k
        all   == [k \in 1..n |-> <<dOf(pos(k)), sOf(pos(k))>>]
        once  == SelectSeq(all, LAMBDA c :
                    ~(f.defect = "missing" /\ c[1] = f.dDate /\ c[2] = f.dSym))
        at    == {k \in 1..Len(once) : once[k] = <<f.dDate, f.dSym>>}
        kept  == IF f.defect = "dup" /\ at # {}
                 THEN LET k == CHOOSE k \in at : TRUE
                      IN  SubSeq(once, 1, k) \o SubSeq(once, k, Len(once))
                 ELSE once
        lines == Table([k \in 1..Len(kept) |-> FileLine(f, kept[k][1], kept[k][2])])
        data  == IF f.defect = "revised" /\ at # {}
                 THEN LET k == CHOOSE k \in at : TRUE
                      IN  SubSeq(lines, 1, k) \o <<RevisedLine(lines[k])>>
                              \o SubSeq(lines, k + 1, Len(lines))
                 ELSE lines
    IN  IF f.header = "blank" THEN [header |-> <<"">>, data |-> <<>>]
        ELSE [header |-> HeaderOf(f.header), data |-> data]

\* complete and defective files with the four required columns
DataFiles ==
    [nDates : 1..MaxDates, nSyms : {1, 2, TenStocks}, order : {"asc", "desc"},
     pattern : {"wave", "flat"}, header : {"full"}, defect : {"none"},
     dDate : {0}, dSym : {0}]
    \cup
    {f \in [nDates : 1..MaxDates, nSyms : {1, TenStocks}, order : {"asc"},
            pattern : {"wave"}, header : {"full"},
            defect : {"missing", "nonnum", "short", "dup", "revised"},
            dDate : 1..MaxDates, dSym : 1..MaxDefectSymbols] :
        f.dDate <= f.nDates /\ f.dSym <= f.nSyms}

\* files whose structure is incomplete or unusual
HeaderFiles ==
    [nDates : {0, 1, 2}, nSyms : {1, 2}, order : {"asc"}, pattern : {"wave"},
     header : {"extra", "noClose", "noSymbol", "full"}, defect : {"none"},
     dDate : {0}, dSym : {0}]
    \cup
    [nDates : {0}, nSyms : {1}, order : {"asc"}, pattern : {"wave"},
     header : {"blank"}, defect : {"none"}, dDate : {0}, dSym : {0}]

Files == DataFiles \cup HeaderFiles

\* ------------------------------------------------------------------------
\* StockDataLoader.parseCSV
\* ------------------------------------------------------------------------
\* row[header] after headers.forEach((header, idx) => row[header] = values[idx]):
\* the value under the last column of that name, undefined when there is none
Column(headers, values, name) ==
    LET idxs == {i \in 1..Len(headers) : headers[i] = name}
    IN  IF idxs = {} THEN Undefined
        ELSE values[CHOOSE i \in idxs : \A j \in idxs : j <= i]

RowOf(headers, values) ==
    [Date   |-> Column(headers, values, "Date"),
     Symbol |-> Column(headers, values, "Symbol"),
     Open   |-> Column(headers, values, "Open"),
     Close  |-> Column(headers, values, "Close")]

\* parseCSV keeping one row per distinct line
parseCSV_Distinct(text) ==
    LET headers == text.header
        okLines == Distinct(SelectSeq(text.data,
                       LAMBDA values : Len(values) = Len(headers)))
    IN  [threw   |-> FALSE,
         rawData |-> Table([i \in 1..Len(okLines) |-> RowOf(headers, okLines[i])])]

parseCSV(text) ==
    LET headers == text.header
        okLines == SelectSeq(text.data, LAMBDA values : Len(values) = Len(headers))
    IN  [threw   |-> FALSE,
         rawData |-> Table([i \in 1..Len(okLines) |-> RowOf(headers, okLines[i])])]

\* ------------------------------------------------------------------------
\* StockDataLoader.preprocessData: symbols, dates and the pivot
\* ------------------------------------------------------------------------
\* a (date, symbol) cell of the pivot or of the normalised panel; has = FALSE
\* is the absent cell (pivotedData[date][symbol] === undefined)
Absent == [has |-> FALSE, Open |-> NaN, Close |-> NaN]

Cell(o, c) == [has |-> TRUE, Open |-> o, Close |-> c]

\* the symbols without the sort(): in order of first occurrence
SymbolsOf_Unsorted(rawData) ==
    Distinct([i \in 1..Len(rawData) |-> rawData[i].Symbol])

\* [...new Set(rawData.map(row => row.Symbol))].sort()
SymbolsOf(rawData) ==
    Sorted(Distinct([i \in 1..Len(rawData) |-> rawData[i].Symbol]))

\* the dates without the sort(): in order of first occurrence
DatesOf_Unsorted(rawData) ==
    Distinct([i \in 1..Len(rawData) |-> rawData[i].Date])

\* [...new Set(rawData.map(row => row.Date))].sort()
DatesOf(rawData) ==
    Sorted(Distinct([i \in 1..Len(rawData) |-> rawData[i].Date]))

\* rawData.find(r => r.Date === date && r.Symbol === symbol): the first match
Find(rawData, date, symbol) ==
    LET hits == {i \in 1..Len(rawData) :
                    rawData[i].Date = date /\ rawData[i].Symbol = symbol}
    IN  IF hits = {} THEN 0 ELSE CHOOSE i \in hits : \A j \in hits : i <= j

Pivot(rawData, symbols, allDates) ==
    Table([c \in Range(allDates) \X Range(symbols) |->
        LET i == Find(rawData, c[1], c[2])
        IN  IF i = 0 THEN Absent
            ELSE Cell(parseFloat(rawData[i].Open), parseFloat(rawData[i].Close))])

\* ------------------------------------------------------------------------
\* StockDataLoader.minMaxNormalize
\* ------------------------------------------------------------------------
\* dates.map(date => pivotedData[date]?.[symbol]?.Open).filter(v => v !== undefined)
Opens(pivotedData, dates, symbol) ==
    LET present == SelectSeq(dates, LAMBDA d : pivotedData[<<d, symbol>>].has)
    IN  [i \in 1..Len(present) |-> pivotedData[<<present[i], symbol>>].Open]

Closes(pivotedData, dates, symbol) ==
    LET present == SelectSeq(dates, LAMBDA d : pivotedData[<<d, symbol>>].has)
    IN  [i \in 1..Len(present) |-> pivotedData[<<present[i], symbol>>].Close]

StockStats(pivotedData, dates, symbol) ==
    LET opens  == Opens(pivotedData, dates, symbol)
        closes == Closes(pivotedData, dates, symbol)
    IN  IF Len(opens) = 0 \/ Len(closes) = 0
        THEN [openMin |-> Num(0), openMax |-> Num(1),
              closeMin |-> Num(0), closeMax |-> Num(1)]
        ELSE [openMin |-> MathMin(opens), openMax |-> MathMax(opens),
              closeMin |-> MathMin(closes), closeMax |-> MathMax(closes)]

\* stats.openMax - stats.openMin || 1
openRange(stats) == OrElse(Sub(stats.openMax, stats.openMin), Num(1))

closeRange(stats) == OrElse(Sub(stats.closeMax, stats.closeMin), Num(1))

minMaxNormalize(pivotedData, symbols, dates) ==
    LET stockStats == Table([s \in Range(symbols) |-> StockStats(pivotedData, dates, s)])
    IN  Table([c \in Range(dates) \X Range(symbols) |->
            LET data  == pivotedData[c]
                stats == stockStats[c[2]]
            IN  IF data.has
                THEN Cell(Div(Sub(data.Open, stats.openMin), openRange(stats)),
                          Div(Sub(data.Close, stats.closeMin), closeRange(stats)))
                ELSE Absent])

\* ------------------------------------------------------------------------
\* StockDataLoader.createSequences
\* ------------------------------------------------------------------------
\* Window starts are the values of the loop variable i (0-based, as in the
\* source); dateIndex is 1-based here, so JavaScript's dateIndex[j] is
\* dateIndex[j + 1].
DateAt(dateIndex, j) == dateIndex[j + 1]

\* the loop advancing by two dates instead of one
LoopStarts_Stride2(dateIndex) ==
    LET last == Len(dateIndex) - sequenceLength - predictionHorizon - 1
    IN  [k \in 1..(IF last < 0 THEN 0 ELSE (last \div 2) + 1) |-> 2 * (k - 1)]

\* the values of i the loop runs over: 0 <= i < length - 12 - 3
LoopStarts(dateIndex) ==
    LET last == Len(dateIndex) - sequenceLength - predictionHorizon - 1
    IN  [k \in 1..(IF last < 0 THEN 0 ELSE last + 1) |-> k - 1]

\* features of one date: (Open, Close) per symbol, (0, 0) for an absent cell
Features(normalizedData, symbols, date) ==
    [k \in 1..(2 * Len(symbols)) |->
        LET stockData == normalizedData[<<date, symbols[(k + 1) \div 2]>>]
        IN  IF stockData.has
            THEN IF k % 2 = 1 THEN stockData.Open ELSE stockData.Close
            ELSE Num(0)]

\* sequence of window i: the dates sequenceStart .. sequenceEnd - 1
WindowSequence(normalizedData, symbols, dateIndex, i) ==
    Table([j \in 1..sequenceLength |->
        Table(Features(normalizedData, symbols, DateAt(dateIndex, i + j - 1)))])

validSequence(normalizedData, symbols, dateIndex, i) ==
    \A j \in 1..sequenceLength : \A s \in Range(symbols) :
        normalizedData[<<DateAt(dateIndex, i + j - 1), s>>].has

\* baseClosePrices[symbol] = this.normalizedData[targetDate]?.[symbol]?.Close || 0
baseClosePrice(normalizedData, targetDate, symbol) ==
    LET c == normalizedData[<<targetDate, symbol>>]
    IN  IF c.has THEN OrElse(c.Close, Num(0)) ELSE Num(0)

\* one entry of the target: futureCell is normalizedData[futureDate][symbol];
\* baseClose is never undefined once "|| 0" has been applied
TargetBit(futureCell, baseClose) ==
    IF futureCell.has
    THEN IF Gt(futureCell.Close, baseClose) THEN 1 ELSE 0
    ELSE 0

\* flat position of (symbol index s, offset) in a target, 1-based: the bits are
\* pushed offset by offset, symbol by symbol
TargetIndex(numSymbols, s, offset) == (offset - 1) * numSymbols + s

\* the target laid out symbol by symbol, the three offsets of a symbol together
WindowTarget_SymbolMajor(normalizedData, symbols, dateIndex, i) ==
    LET n == Len(symbols)
    IN  [k \in 1..(predictionHorizon * n) |->
            LET offset == ((k - 1) % predictionHorizon) + 1
                symbol == symbols[((k - 1) \div predictionHorizon) + 1]
            IN  TargetBit(
                    normalizedData[<<DateAt(dateIndex, i + sequenceLength + offset), symbol>>],
                    baseClosePrice(normalizedData,
                                   DateAt(dateIndex, i + sequenceLength), symbol))]

WindowTarget(normalizedData, symbols, dateIndex, i) ==
    LET n == Len(symbols)
    IN  [k \in 1..(predictionHorizon * n) |->
            LET offset == ((k - 1) \div n) + 1
                symbol == symbols[((k - 1) % n) + 1]
            IN  TargetBit(
                    normalizedData[<<DateAt(dateIndex, i + sequenceLength + offset), symbol>>],
                    baseClosePrice(normalizedData,
                                   DateAt(dateIndex, i + sequenceLength), symbol))]

validTarget(normalizedData, symbols, dateIndex, i) ==
    \A offset \in 1..predictionHorizon : \A s \in Range(symbols) :
        normalizedData[<<DateAt(dateIndex, i + sequenceLength + offset), s>>].has

\* if (validSequence && validTarget && sequence.length === sequenceLength
\*     && target.length === 30)
Accepted(normalizedData, symbols, dateIndex, i) ==
    /\ validSequence(normalizedData, symbols, dateIndex, i)
    /\ validTarget(normalizedData, symbols, dateIndex, i)
    /\ Len(WindowSequence(normalizedData, symbols, dateIndex, i)) = sequenceLength
    /\ Len(WindowTarget(normalizedData, symbols, dateIndex, i)) = TargetLength

\* the split index rounded up instead of down
splitIndex_Ceil(length) ==
    (length * trainTestSplit[1] + trainTestSplit[2] - 1) \div trainTestSplit[2]

\* Math.floor(sequences.length * this.trainTestSplit)
splitIndex(length) == (length * trainTestSplit[1]) \div trainTestSplit[2]

\* sequences.slice(0, splitIndex) and sequences.slice(splitIndex)
SliceTo(xs, k) == SubSeq(xs, 1, k)

SliceFrom(xs, k) == SubSeq(xs, k + 1, Len(xs))

\* tf.tensor(values, shape) throws unless the nested array has that shape
FitsShape3(values, shape) ==
    /\ Len(values) = shape[1]
    /\ \A i \in 1..Len(values) :
        /\ Len(values[i]) = shape[2]
        /\ \A j \in 1..Len(values[i]) : Len(values[i][j]) = shape[3]

FitsShape2(values, shape) ==
    /\ Len(values) = shape[1]
    /\ \A i \in 1..Len(values) : Len(values[i]) = shape[2]

Tensor(values, shape) == [null |-> FALSE, shape |-> shape, values |-> values]

\* a tensor reference that is null or undefined
Null == [null |-> TRUE, shape |-> <<>>, values |-> <<>>]

NoData == [X_train |-> Null, y_train |-> Null, X_test |-> Null, y_test |-> Null,
           symbols |-> <<>>]

createSequences(normalizedData, symbols, dateIndex) ==
    LET starts    == SelectSeq(LoopStarts(dateIndex),
                        LAMBDA i : Accepted(normalizedData, symbols, dateIndex, i))
        sequences == Table([k \in 1..Len(starts) |->
                        WindowSequence(normalizedData, symbols, dateIndex, starts[k])])
        targets   == Table([k \in 1..Len(starts) |->
                        WindowTarget(normalizedData, symbols, dateIndex, starts[k])])
        split     == splitIndex(Len(sequences))
        X_train   == SliceTo(sequences, split)
        X_test    == SliceFrom(sequences, split)
        y_train   == SliceTo(targets, split)
        y_test    == SliceFrom(targets, split)
        fits      == /\ FitsShape3(X_train, <<Len(X_train), sequenceLength, FeatureLength>>)
                     /\ FitsShape2(y_train, <<Len(y_train), TargetLength>>)
                     /\ FitsShape3(X_test, <<Len(X_test), sequenceLength, FeatureLength>>)
                     /\ FitsShape2(y_test, <<Len(y_test), TargetLength>>)
    IN  [threw     |-> ~fits,
         starts    |-> starts,
         sequences |-> sequences,
         targets   |-> targets,
         data      |-> IF fits
                       THEN [X_train |-> Tensor(X_train, <<Len(X_train), sequenceLength, FeatureLength>>),
                             y_train |-> Tensor(y_train, <<Len(y_train), TargetLength>>),
                             X_test  |-> Tensor(X_test, <<Len(X_test), sequenceLength, FeatureLength>>),
                             y_test  |-> Tensor(y_test, <<Len(y_test), TargetLength>>),
                             symbols |-> symbols]
                       ELSE NoData]

\* ------------------------------------------------------------------------
\* GRUModel.computeStockAccuracy
\* ------------------------------------------------------------------------
Half == <<5, 10>>

\* the threshold taken as >= 0.5
Thresholded_AtLeast(row, predIdx) ==
    IF predIdx + 1 <= Len(row)
    THEN (IF Gt(row[predIdx + 1], Half) \/ NumEq(row[predIdx + 1], Half) THEN 1 ELSE 0)
    ELSE 0

\* predArray[i][predIdx] > 0.5 ? 1 : 0, with predIdx 0-based; an index past the
\* end of the row reads undefined, and undefined > 0.5 is false
Thresholded(row, predIdx) ==
    IF predIdx + 1 <= Len(row) THEN (IF Gt(row[predIdx + 1], Half) THEN 1 ELSE 0)
    ELSE 0

\* pred === trueArray[i][predIdx]; undefined equals neither 0 nor 1
Matches(pred, row, predIdx) ==
    predIdx + 1 <= Len(row) /\ row[predIdx + 1] = pred

\* the (sample, day) pairs the two loops visit, samples 1-based
Entries(predArray) == (1..Len(predArray)) \X (0..(daysAhead - 1))

\* correct / total
Accuracy(correct, total) == Div(Num(correct), Num(total))

\* index of a symbol in symbols, 0-based; for a repeated symbol the later
\* assignment to accuracies[symbol] stays
IndexOfSymbol(symbols, symbol) ==
    (CHOOSE i \in 1..Len(symbols) :
        symbols[i] = symbol /\ \A j \in 1..Len(symbols) : symbols[j] = symbol => j <= i) - 1

computeStockAccuracy(predictions, yTrue, symbols) ==
    LET predArray == predictions.values
        trueArray == yTrue.values
        \* arraySync() of null, or trueArray[i] undefined inside the loops
        throws    == \/ predictions.null
                     \/ yTrue.null
                     \/ (Len(symbols) > 0 /\ Len(predArray) > Len(trueArray))
        correctOf(symbolIndex) ==
            Cardinality({e \in Entries(predArray) :
                LET predIdx == symbolIndex + e[2] * Len(symbols)
                IN  Matches(Thresholded(predArray[e[1]], predIdx),
                            trueArray[e[1]], predIdx)})
        total == Cardinality(Entries(predArray))
    IN  IF throws THEN [threw |-> TRUE, accuracies |-> <<>>]
        ELSE [threw |-> FALSE,
              accuracies |-> [symbol \in Range(symbols) |->
                    Accuracy(correctOf(IndexOfSymbol(symbols, symbol)), total)]]

\* ------------------------------------------------------------------------
\* Outputs of the external model.predict and direct calls of the evaluator
\* ------------------------------------------------------------------------
PredictionKinds == {"up", "oracle", "half", "mixed"}

PredValue(kind, bit, i, k) ==
    CASE kind = "up"     -> <<6, 10>>
      [] kind = "half"   -> Half
      [] kind = "oracle" -> IF bit = 1 THEN <<9, 10>> ELSE <<1, 10>>
      [] kind = "mixed"  -> IF (i + k) % 2 = 0 THEN <<6, 10>> ELSE <<4, 10>>

\* model.predict(X_test): one row per test sample, as wide as a target
Predicted(kind, y_test) ==
    Tensor([i \in 1..Len(y_test.values) |->
                [k \in 1..TargetLength |-> PredValue(kind, y_test.values[i][k], i, k)]],
           <<Len(y_test.values), TargetLength>>)

\* a prediction matrix of m rows and w columns
PredMatrix(kind, m, w) ==
    Tensor([i \in 1..m |-> [k \in 1..w |-> PredValue(kind, 0, i, k)]], <<m, w>>)

\* a target matrix of m rows and w columns
TrueMatrix(kind, m, w) ==
    Tensor([i \in 1..m |-> [k \in 1..w |->
                CASE kind = "ones"  -> 1
                  [] kind = "zeros" -> 0
                  [] kind = "match" -> IF (i + k) % 2 = 0 THEN 1 ELSE 0]],
           <<m, w>>)

\* arguments of direct calls: one or two symbols, two or three columns per
\* symbol, absent and short arguments included
CallsFor(n) ==
    {[predictions |-> p, yTrue |-> y, symbols |-> [i \in 1..n |-> StrField(i)]] :
        p \in {Null} \cup {PredMatrix(kind, m, w * n) :
                            kind \in {"up", "mixed"}, m \in 0..MaxSamples, w \in {2, 3}},
        y \in {Null} \cup {TrueMatrix(kind, m, w * n) :
                            kind \in {"ones", "match"}, m \in 0..MaxSamples, w \in {2, 3}}}

AccuracyCalls == CallsFor(1) \cup CallsFor(2)

NoCall == [predictions |-> Null, yTrue |-> Null, symbols |-> <<>>]

NoResult == [threw |-> FALSE, accuracies |-> <<>>]

\* ------------------------------------------------------------------------
\* State
\* ------------------------------------------------------------------------
VARIABLES
    pc,              \* "idle", "loaded", "preprocessed", "failed", "predicted",
                     \* "evaluated", "called"
    csvText,         \* the text handed to parseCSV
    rawData,         \* rows returned by parseCSV
    stockSymbols,    \* this.stockSymbols
    dateIndex,       \* this.dateIndex
    pivotedData,     \* pivotedData of preprocessData
    normalizedData,  \* this.normalizedData
    starts,          \* values of i whose window createSequences pushed
    sequences,       \* sequences of createSequences, before the split
    targets,         \* targets of createSequences, before the split
    trainData,       \* the dataset returned by preprocessData
    accCall,         \* arguments of the last call of computeStockAccuracy
    accResult        \* its outcome: the mapping, or threw

\* ------------------------------------------------------------------------
\* StockPredictionApp: the state of the page
\* ------------------------------------------------------------------------
\* Tensors, tf models and GRUModel objects are named by the order in which
\* they were made (1, 2, ...); 0 stands for null.
VARIABLES
    app,       \* window.app: model (a GRUModel), trainData, predictions
    gru,       \* gru[g]: this.model of GRUModel g, a tf model or 0
    live,      \* datasets, tf models and predictions made and not disposed
    trainBtn,  \* the train button: disabled
    progress,  \* the message in the progress element
    uploads,   \* the calls of handleFileUpload so far
    runs       \* the calls of startTraining so far

appVars == <<app, gru, live, trainBtn, progress, uploads, runs>>

pipelineVars == <<pc, csvText, rawData, stockSymbols, dateIndex, pivotedData,
                  normalizedData, starts, sequences, targets, trainData,
                  accCall, accResult>>

vars == <<pc, csvText, rawData, stockSymbols, dateIndex, pivotedData,
          normalizedData, starts, sequences, targets, trainData, accCall, accResult,
          app, gru, live, trainBtn, progress, uploads, runs>>

\* new StockPredictionApp(): a GRUModel without tf model, no dataset, no
\* predictions; the button waits for a file (handleFileUpload enables it)
AppInit ==
    /\ app = [model |-> 1, trainData |-> 0, predictions |-> 0]
    /\ gru = <<0>>
    /\ live = [datasets |-> {}, models |-> {}, predictions |-> {}]
    /\ trainBtn = [disabled |-> TRUE]
    /\ progress = ""
    /\ uploads = <<>>
    /\ runs = <<>>

loaderVars == <<stockSymbols, dateIndex, pivotedData, normalizedData, starts,
                sequences, targets, trainData>>

Init ==
    /\ pc = "idle"
    /\ csvText = [header |-> <<"">>, data |-> <<>>]
    /\ rawData = <<>>
    /\ stockSymbols = <<>>
    /\ dateIndex = <<>>
    /\ pivotedData = <<>>
    /\ normalizedData = <<>>
    /\ starts = <<>>
    /\ sequences = <<>>
    /\ targets = <<>>
    /\ trainData = NoData
    /\ accCall = NoCall
    /\ accResult = NoResult
    /\ AppInit

\* loadCSV: the reader delivers the text and parseCSV turns it into rows
LoadCSV(f) ==
    /\ pc = "idle"
    /\ \E text \in {FileText(f)} : \E parsed \in {parseCSV(text)} :
           /\ csvText' = text
           /\ rawData' = parsed.rawData
           /\ pc' = IF parsed.threw THEN "failed" ELSE "loaded"
    /\ UNCHANGED <<loaderVars, accCall, accResult, appVars>>

\* preprocessData(rawData): symbols and dates, pivot, minMaxNormalize, then
\* createSequences
PreprocessData ==
    /\ pc = "loaded"
    /\ \E symbols \in {SymbolsOf(rawData)}, allDates \in {DatesOf(rawData)} :
       \E pivoted \in {Pivot(rawData, symbols, allDates)} :
       \E norm \in {minMaxNormalize(pivoted, symbols, allDates)} :
       \E made \in {createSequences(norm, symbols, allDates)} :
           /\ stockSymbols' = symbols
           /\ dateIndex' = allDates
           /\ pivotedData' = pivoted
           /\ normalizedData' = norm
           /\ starts' = made.starts
           /\ sequences' = made.sequences
           /\ targets' = made.targets
           /\ trainData' = made.data
           /\ pc' = IF made.threw THEN "failed" ELSE "preprocessed"
    /\ UNCHANGED <<csvText, rawData, accCall, accResult, appVars>>

\* model.predict(trainData.X_test) followed by evaluateAndVisualize's call
\* computeStockAccuracy(predictions, trainData.y_test, trainData.symbols)
Evaluate(kind) ==
    /\ pc = "preprocessed"
    /\ LET p == Predicted(kind, trainData.y_test)
       IN  /\ accCall' = [predictions |-> p, yTrue |-> trainData.y_test,
                          symbols |-> trainData.symbols]
           /\ accResult' = computeStockAccuracy(p, trainData.y_test, trainData.symbols)
    /\ pc' = "evaluated"
    /\ UNCHANGED <<csvText, rawData, loaderVars, appVars>>

\* computeStockAccuracy called on its own
CallComputeStockAccuracy(call) ==
    /\ pc = "idle"
    /\ accCall' = call
    /\ accResult' = computeStockAccuracy(call.predictions, call.yTrue, call.symbols)
    /\ pc' = "called"
    /\ UNCHANGED <<csvText, rawData, loaderVars, appVars>>

Next ==
    \/ \E f \in Files : LoadCSV(f)
    \/ PreprocessData
    \/ \E kind \in PredictionKinds : Evaluate(kind)
    \/ \E call \in AccuracyCalls : CallComputeStockAccuracy(call)

Spec == Init /\ [][Next]_vars

\* ------------------------------------------------------------------------
\* StockPredictionApp: the event handlers
\* ------------------------------------------------------------------------
\* A handler runs until its first await; what follows the await runs later, as
\* one step, when the awaited promise settles.  The file input is never
\* disabled; the train button delivers clicks only while it is enabled.

\* cleanup() dropping its references without disposing what they refer to
cleanup_NoDispose(a, g, lv) ==
    [app  |-> [model |-> Len(g) + 1, trainData |-> 0, predictions |-> 0],
     gru  |-> Append(g, 0),
     live |-> lv]

\* cleanup(): dispose the tf model, the dataset and the predictions that the
\* app refers to, take a new GRUModel, disable the button
cleanup(a, g, lv) ==
    [app  |-> [model |-> Len(g) + 1, trainData |-> 0, predictions |-> 0],
     gru  |-> Append(g, 0),
     live |-> [datasets    |-> lv.datasets \ {a.trainData},
               models      |-> lv.models \ {g[a.model]},
               predictions |-> lv.predictions \ {a.predictions}]]

\* the next unused name among those made so far
Fresh(used) == Cardinality(used) + 1

\* every dataset, tf model or prediction made so far
MadeDatasets == {uploads[u].made : u \in 1..Len(uploads)} \ {0}

MadeModels == {runs[r].tf : r \in 1..Len(runs)} \ {0}

MadePredictions == {runs[r].made : r \in 1..Len(runs)} \ {0}

\* handleFileUpload up to "await this.dataLoader.loadCSV(file)"
handleFileUpload(hasFile) ==
    /\ Len(uploads) < MaxUploads
    /\ IF ~hasFile
       THEN /\ progress' = "No file selected"
            /\ uploads' = Append(uploads,
                   [at |-> "done", failed |-> "none", stages |-> <<>>,
                    log |-> <<"No file selected">>, made |-> 0])
            /\ UNCHANGED <<app, gru, live, trainBtn>>
       ELSE LET c == cleanup(app, gru, live)
            IN  /\ app' = c.app
                /\ gru' = c.gru
                /\ live' = c.live
                /\ trainBtn' = [disabled |-> TRUE]
                /\ progress' = "Loading CSV file..."
                /\ uploads' = Append(uploads,
                       [at |-> "reading", failed |-> "none", stages |-> <<"read">>,
                        log |-> <<"Loading CSV file...">>, made |-> 0])
    /\ UNCHANGED <<runs, pipelineVars>>

\* the outcomes of loadCSV and preprocessData
UploadOutcomes == {"readError", "threw", "noData", "ok"}

\* handleFileUpload from the moment loadCSV settles: preprocessData, the test
\* of its result, and the catch block
handleFileUpload_Resumes(u, outcome) ==
    /\ u \in 1..Len(uploads)
    /\ uploads[u].at = "reading"
    /\ IF outcome = "ok"
       THEN LET d == Fresh(MadeDatasets)
            IN  /\ app' = [app EXCEPT !.trainData = d]
                /\ live' = [live EXCEPT !.datasets = @ \cup {d}]
                /\ trainBtn' = [disabled |-> FALSE]
                /\ progress' = "Data loaded successfully!"
                /\ uploads' = [uploads EXCEPT ![u] =
                       [at |-> "done", failed |-> "none",
                        stages |-> <<"read", "preprocess">>,
                        log |-> @.log \o <<"Preprocessing data...",
                                           "Data loaded successfully!">>,
                        made |-> d]]
                /\ UNCHANGED gru
       ELSE LET c == cleanup(app, gru, live)
            IN  /\ app' = c.app
                /\ gru' = c.gru
                /\ live' = c.live
                /\ trainBtn' = [disabled |-> TRUE]
                /\ progress' = "Error"
                /\ uploads' = [uploads EXCEPT ![u] =
                       IF outcome = "readError"
                       THEN [at |-> "done", failed |-> "read", stages |-> <<"read">>,
                             log |-> @.log \o <<"Error">>, made |-> 0]
                       ELSE [at |-> "done", failed |-> "preprocess",
                             stages |-> <<"read", "preprocess">>,
                             log |-> @.log \o <<"Preprocessing data...", "Error">>,
                             made |-> 0]]
    /\ UNCHANGED <<runs, pipelineVars>>

\* startTraining up to "await this.model.train(...)": buildModel puts a new tf
\* model in the GRUModel and train is called with the tensors of trainData
startTraining ==
    /\ ~trainBtn.disabled
    /\ Len(runs) < MaxRuns
    /\ IF app.trainData = 0
       THEN /\ progress' = "Please load data first"
            /\ runs' = Append(runs,
                   [at |-> "done", failed |-> "none", stages |-> <<>>,
                    log |-> <<"Please load data first">>,
                    model |-> 0, tf |-> 0, data |-> 0, made |-> 0])
            /\ UNCHANGED <<gru, live, trainBtn>>
       ELSE LET m == Fresh(MadeModels)
            IN  /\ gru' = [gru EXCEPT ![app.model] = m]
                /\ live' = [live EXCEPT !.models = @ \cup {m}]
                /\ trainBtn' = [disabled |-> TRUE]
                /\ progress' = "Starting training (this may take a while)..."
                /\ runs' = Append(runs,
                       [at |-> "training", failed |-> "none",
                        stages |-> <<"build", "train">>,
                        log |-> <<"Building model...",
                                  "Starting training (this may take a while)...">>,
                        model |-> app.model, tf |-> m, data |-> app.trainData,
                        made |-> 0])
    /\ UNCHANGED <<app, uploads, pipelineVars>>

\* the outcomes of train, predict and the evaluation
RunOutcomes == {"trainThrew", "predictThrew", "evaluateThrew", "ok"}

\* this.model.predict(this.trainData.X_test) can be evaluated: trainData is
\* not null and the GRUModel of the app holds a tf model
CanPredict == app.trainData # 0 /\ gru[app.model] # 0

\* startTraining from the moment train settles: predict, evaluateAndVisualize
\* (which catches what it throws), the catch and the finally block
startTraining_Resumes(r, outcome) ==
    /\ r \in 1..Len(runs)
    /\ runs[r].at = "training"
    /\ outcome \in {"evaluateThrew", "ok"} => CanPredict
    /\ trainBtn' = [disabled |-> FALSE]
    /\ IF outcome \in {"trainThrew", "predictThrew"}
       THEN /\ progress' = "Training error"
            /\ runs' = [runs EXCEPT ![r] =
                   IF outcome = "trainThrew"
                   THEN [@ EXCEPT !.at = "done", !.failed = "train",
                                  !.log = @ \o <<"Training error">>]
                   ELSE [@ EXCEPT !.at = "done", !.failed = "predict",
                                  !.stages = @ \o <<"predict">>,
                                  !.log = @ \o <<"Making predictions...",
                                                 "Training error">>]]
            /\ UNCHANGED <<app, live>>
       ELSE LET q == Fresh(MadePredictions)
            IN  /\ app' = [app EXCEPT !.predictions = q]
                /\ live' = [live EXCEPT !.predictions = @ \cup {q}]
                /\ progress' = "Training completed! Check charts below."
                /\ runs' = [runs EXCEPT ![r] =
                       [@ EXCEPT !.at = "done",
                                 !.failed = IF outcome = "ok" THEN "none" ELSE "evaluate",
                                 !.stages = @ \o <<"predict", "evaluate">>,
                                 !.log = @ \o <<"Making predictions...",
                                                "Evaluating results...">>
                                           \o (IF outcome = "ok" THEN <<>>
                                               ELSE <<"Evaluation error">>)
                                           \o <<"Training completed! Check charts below.">>,
                                 !.made = q]]
    /\ UNCHANGED <<gru, uploads, pipelineVars>>

NextApp ==
    \/ \E hasFile \in BOOLEAN : handleFileUpload(hasFile)
    \/ \E u \in 1..MaxUploads : \E outcome \in UploadOutcomes :
           handleFileUpload_Resumes(u, outcome)
    \/ startTraining
    \/ \E r \in 1..MaxRuns : \E outcome \in RunOutcomes :
           startTraining_Resumes(r, outcome)

SpecApp == Init /\ [][NextApp]_vars

\* ------------------------------------------------------------------------
\* Properties
\* ------------------------------------------------------------------------
RequiredColumns == {"Date", "Symbol", "Open", "Close"}

\* the text has all four required columns and every data line is well formed:
\* as many fields as the header, numeric Open and Close
ValidCSV ==
    /\ RequiredColumns \subseteq Range(csvText.header)
    /\ Len(csvText.data) > 0
    /\ \A i \in 1..Len(csvText.data) :
        /\ Len(csvText.data[i]) = Len(csvText.header)
        /\ Column(csvText.header, csvText.data[i], "Open").k = "num"
        /\ Column(csvText.header, csvText.data[i], "Close").k = "num"

Preprocessed == pc \in {"preprocessed", "evaluated"}

TrainCount == Len(trainData.X_train.values)

TestCount == Len(trainData.X_test.values)

\* window starts of the train set and of the test set
TrainStarts == SubSeq(starts, 1, TrainCount)

TestStarts == SubSeq(starts, TrainCount + 1, Len(starts))

\* positions (0-based) of the dates under the window that starts at i: the 12
\* input dates, the base date and the 3 future dates
WindowSpan == 0..(sequenceLength + predictionHorizon)

\* C1 (as claimed): for every valid CSV, with or without missing cells, the
\* number of sequences (train plus test) is max(0, numDates - 12 - 3).
C1_SequenceCount ==
    (Preprocessed /\ ValidCSV) =>
        TrainCount + TestCount =
            (IF Len(dateIndex) - 12 - 3 > 0 THEN Len(dateIndex) - 12 - 3 ELSE 0)

\* C2 (as claimed): with a non-empty train set and a non-empty test set, every
\* date under a test window is later than every date under a train window.
C2_DisjointDates ==
    (Preprocessed /\ TrainCount > 0 /\ TestCount > 0) =>
        \A r \in Range(TrainStarts) : \A t \in Range(TestStarts) :
            \A a \in WindowSpan : \A b \in WindowSpan :
                SortsBefore(DateAt(dateIndex, r + a), DateAt(dateIndex, t + b))

\* C2 (amended): every test window lies later than every train window position
\* by position: its k-th date is later than the k-th date of any train window,
\* so it starts later and ends later, though the windows overlap.
C2_TestWindowsLater ==
    Preprocessed =>
        \A r \in Range(TrainStarts) : \A t \in Range(TestStarts) :
            \A a \in WindowSpan :
                SortsBefore(DateAt(dateIndex, r + a), DateAt(dateIndex, t + a))

C2_Witness ==
    /\ pc = "preprocessed"
    /\ TrainCount > 1
    /\ TestCount > 0
    /\ csvText.data[1][1] = StrField(Len(dateIndex))

\* C3: the train set is the first floor(0.8 * count) accepted windows in
\* window-start order and the test set the remaining ones; inputs and targets
\* stay paired.
C3_SplitInOrder ==
    Preprocessed =>
        LET count == Len(starts)
            k     == CHOOSE q \in 0..count : 5 * q <= 4 * count /\ 5 * (q + 1) > 4 * count
        IN  /\ \A a \in 1..count : \A b \in 1..count : a < b => starts[a] < starts[b]
            /\ TrainCount = k
            /\ TestCount = count - k
            /\ Len(trainData.y_train.values) = k
            /\ Len(trainData.y_test.values) = count - k
            /\ \A a \in 1..k :
                /\ trainData.X_train.values[a] =
                       WindowSequence(normalizedData, stockSymbols, dateIndex, starts[a])
                /\ trainData.y_train.values[a] =
                       WindowTarget(normalizedData, stockSymbols, dateIndex, starts[a])
            /\ \A a \in 1..(count - k) :
                /\ trainData.X_test.values[a] =
                       WindowSequence(normalizedData, stockSymbols, dateIndex, starts[k + a])
                /\ trainData.y_test.values[a] =
                       WindowTarget(normalizedData, stockSymbols, dateIndex, starts[k + a])

C3_Witness ==
    /\ pc = "preprocessed"
    /\ Len(starts) = 3
    /\ TrainCount = 2
    /\ TestCount = 1
    /\ trainData.y_train.values[1] # trainData.y_test.values[1]

\* C4 (as claimed): in every kept window, for every symbol and offset, the
\* target bit is 1 exactly when the symbol's normalised close on the future
\* date exceeds its normalised close on the base date, and 0 if either close
\* is missing.
C4_TargetBits ==
    Preprocessed =>
        \A w \in 1..Len(starts) : \A s \in 1..Len(stockSymbols) :
            \A offset \in 1..predictionHorizon :
                LET base   == normalizedData[<<DateAt(dateIndex, starts[w] + 12),
                                               stockSymbols[s]>>]
                    future == normalizedData[<<DateAt(dateIndex, starts[w] + 12 + offset),
                                               stockSymbols[s]>>]
                    bit    == targets[w][TargetIndex(Len(stockSymbols), s, offset)]
                IN  bit = (IF base.has /\ future.has /\ Gt(future.Close, base.Close)
                           THEN 1 ELSE 0)

\* a number in the closed interval [0, 1]
InUnit(a) == IsFinite(a) /\ 0 <= a[1] /\ a[1] <= a[2]

\* the numbers among the observed values
Finite(xs) == SelectSeq(xs, IsFinite)

\* v is the least (greatest) of the numbers xs
IsLeast(v, xs) == \A i \in 1..Len(xs) : ~Gt(v, xs[i])

IsGreatest(v, xs) == \A i \in 1..Len(xs) : ~Gt(xs[i], v)

AllEqual(xs) == \A i \in 1..Len(xs) : \A j \in 1..Len(xs) : NumEq(xs[i], xs[j])

\* what C5 asks of one observed value v, its normalised value nv and the
\* symbol's observed numbers xs
MinMaxMapped(v, nv, xs) ==
    /\ IsLeast(v, xs) => NumEq(nv, Num(0))
    /\ (IsGreatest(v, xs) /\ ~AllEqual(xs)) => NumEq(nv, Num(1))
    /\ AllEqual(xs) => (IsFinite(nv) /\ NumEq(nv, Num(0)))

\* C5 (as claimed): normalisation maps a symbol's observed minimum open
\* (close) to 0 and its observed maximum to 1, and every value of a symbol
\* whose observed values are all equal to 0, never NaN or infinite.
C5_MinMaxEndpoints ==
    Preprocessed =>
        \A s \in Range(stockSymbols) : \A d \in Range(dateIndex) :
            LET cell == pivotedData[<<d, s>>]
                norm == normalizedData[<<d, s>>]
            IN  cell.has =>
                    /\ IsFinite(cell.Open) =>
                          MinMaxMapped(cell.Open, norm.Open,
                                       Finite(Opens(pivotedData, dateIndex, s)))
                    /\ IsFinite(cell.Close) =>
                          MinMaxMapped(cell.Close, norm.Close,
                                       Finite(Closes(pivotedData, dateIndex, s)))

\* C6 (as claimed): every open and close of the normalised panel, and every
\* feature of every input sequence, lies in [0, 1].
C6_UnitInterval ==
    Preprocessed =>
        /\ \A c \in DOMAIN normalizedData :
              normalizedData[c].has =>
                  InUnit(normalizedData[c].Open) /\ InUnit(normalizedData[c].Close)
        /\ \A w \in 1..Len(sequences) : \A j \in 1..Len(sequences[w]) :
              \A k \in 1..Len(sequences[w][j]) : InUnit(sequences[w][j][k])

\* ---- computeStockAccuracy ----
Called == pc \in {"called", "evaluated"}

\* 1 when the prediction p is above 0.5, else 0
Above(p) == IF IsFinite(p) /\ 2 * p[1] > p[2] THEN 1 ELSE 0

CallRows == Len(accCall.predictions.values)

\* the call has a prediction row and a target row of `width` entries for every
\* sample
RowsOfWidth(width) ==
    /\ ~accCall.predictions.null
    /\ ~accCall.yTrue.null
    /\ Len(accCall.yTrue.values) = CallRows
    /\ \A i \in 1..CallRows :
        /\ Len(accCall.predictions.values[i]) = width
        /\ Len(accCall.yTrue.values[i]) = width

\* (sample, day) entries of the symbol at 0-based index s whose flat index
\* s + day * numSymbols lies inside a row of `width` entries, day < days
EntriesWithin(s, width, days) ==
    {e \in (1..CallRows) \X (0..(days - 1)) : s + e[2] * Len(accCall.symbols) < width}

\* those whose thresholded prediction equals the target bit
MatchingWithin(s, width, days) ==
    {e \in EntriesWithin(s, width, days) :
        LET idx == s + e[2] * Len(accCall.symbols) + 1
        IN  Above(accCall.predictions.values[e[1]][idx]) = accCall.yTrue.values[e[1]][idx]}

\* C7 (as claimed): for each symbol the accuracy is the number of supplied
\* (sample, day-offset) entries whose thresholded prediction equals the target
\* bit, divided by the number of supplied entries of that symbol; when every
\* supplied entry matches, as for [[0.6,0.4]] against [[1,0]] with one symbol
\* and two offsets, it is 1.
C7_OverSuppliedEntries ==
    \A perSymbol \in {2, 3} :
        (Called /\ RowsOfWidth(perSymbol * Len(accCall.symbols))) =>
            /\ ~accResult.threw
            /\ \A s \in 1..Len(accCall.symbols) :
                LET width   == perSymbol * Len(accCall.symbols)
                    entries == EntriesWithin(s - 1, width, perSymbol)
                    matches == MatchingWithin(s - 1, width, perSymbol)
                    acc     == accResult.accuracies[accCall.symbols[s]]
                IN  /\ acc = Div(Num(Cardinality(matches)), Num(Cardinality(entries)))
                    /\ (entries # {} /\ matches = entries) => NumEq(acc, Num(1))

\* C7 (amended): for each symbol at index s the accuracy is the number of
\* (sample, day) entries, day in 0..2, whose flat index s + day * numSymbols
\* lies inside the row and whose thresholded prediction equals the target bit,
\* divided by 3 times the number of samples; with three offsets per symbol
\* supplied and every entry matching it is 1.
C7_OverThreeDays ==
    \A perSymbol \in {2, 3} :
        (Called /\ RowsOfWidth(perSymbol * Len(accCall.symbols))) =>
            /\ ~accResult.threw
            /\ \A s \in 1..Len(accCall.symbols) :
                LET width   == perSymbol * Len(accCall.symbols)
                    matches == MatchingWithin(s - 1, width, 3)
                    acc     == accResult.accuracies[accCall.symbols[s]]
                IN  /\ acc = Div(Num(Cardinality(matches)), Num(3 * CallRows))
                    /\ (perSymbol = 3 /\ CallRows > 0
                        /\ matches = EntriesWithin(s - 1, width, 3)) => NumEq(acc, Num(1))

C7_Witness ==
    /\ pc = "called"
    /\ RowsOfWidth(3)
    /\ Len(accCall.symbols) = 1
    /\ CallRows = 1
    /\ accCall.predictions.values[1] = << <<6, 10>>, <<4, 10>>, <<6, 10>> >>
    /\ accCall.yTrue.values[1] = <<1, 0, 1>>
    /\ NumEq(accResult.accuracies[accCall.symbols[1]], Num(1))

\* C8 (as claimed): every accuracy computed from predictions and targets the
\* pipeline produces is a number in [0, 1], a test set of zero samples
\* included.
C8_AccuracyInUnit ==
    (pc = "evaluated" /\ ~accResult.threw) =>
        \A symbol \in DOMAIN accResult.accuracies : InUnit(accResult.accuracies[symbol])

\* C9 (as claimed): when predictions or targets are absent or malformed,
\* computeStockAccuracy returns an empty mapping and does not throw.
C9_FailsSafe ==
    (pc = "called" /\ ~RowsOfWidth(3 * Len(accCall.symbols))) =>
        /\ ~accResult.threw
        /\ DOMAIN accResult.accuracies = {}

\* C10 (as claimed): parseCSV fails, returning no rows, when the text has
\* fewer than 2 lines or when one of Date, Symbol, Open, Close is missing from
\* the header.
C10_RejectsIncompleteCSV ==
    (pc \notin {"idle", "called"}
        /\ (Len(csvText.data) = 0 \/ ~(RequiredColumns \subseteq Range(csvText.header))))
    => pc = "failed"

\* a file has been parsed and its rows are in rawData
Parsed == pc \in {"loaded", "preprocessed", "evaluated"}

\* the field parses as a number
Numeric(field) == ~IsNaN(parseFloat(field))

\* the data lines that have one field per header and a numeric Open and Close
NumericLines ==
    SelectSeq(csvText.data, LAMBDA values :
        /\ Len(values) = Len(csvText.header)
        /\ Numeric(Column(csvText.header, values, "Open"))
        /\ Numeric(Column(csvText.header, values, "Close")))

\* C11: parseCSV returns exactly one row for each data line whose field count
\* matches the header and whose Open and Close parse as numbers, and no row
\* for a line with another field count or a non-numeric Open or Close.
C11_OnlyNumericRows ==
    Parsed =>
        /\ Len(rawData) = Len(NumericLines)
        /\ \A i \in 1..Len(rawData) :
               rawData[i] = RowOf(csvText.header, NumericLines[i])

\* the positions of the data lines that have one field per header, ascending
MatchingLines ==
    SelectSeq([i \in 1..Len(csvText.data) |-> i],
              LAMBDA i : Len(csvText.data[i]) = Len(csvText.header))

\* C12: the rows of parseCSV are in the relative order of the lines they come
\* from, and every such line gives its own row: two identical lines give two
\* rows.
C12_RowsInLineOrder ==
    Parsed =>
        /\ Len(rawData) = Len(MatchingLines)
        /\ \A k \in 1..Len(rawData) :
               rawData[k] = RowOf(csvText.header, csvText.data[MatchingLines[k]])

\* a parsed file with two identical lines, followed by a different line, and a
\* row for each of them
C12_Witness ==
    /\ Parsed
    /\ \E i \in 1..(Len(csvText.data) - 2) :
        /\ csvText.data[i] = csvText.data[i + 1]
        /\ csvText.data[i + 1] # csvText.data[i + 2]
        /\ Len(rawData) = Len(csvText.data)
        /\ rawData[i] = rawData[i + 1]
        /\ rawData[i + 1] # rawData[i + 2]

\* C13: preprocessData fails, and returns no dataset, when the row list is
\* empty, when no symbol is found, or when no sequence is produced; it never
\* completes with tensors built from nothing.
C13_EmptyInputFails ==
    Preprocessed =>
        /\ rawData # <<>>
        /\ stockSymbols # <<>>
        /\ sequences # <<>>

\* the file reads and training runs that have been started and have not settled
Outstanding ==
    {<<"read", u>> : u \in {u \in 1..Len(uploads) : uploads[u].at = "reading"}}
    \cup {<<"train", r>> : r \in {r \in 1..Len(runs) : runs[r].at = "training"}}

\* C14: in the app controller at most one asynchronous operation, a file read
\* or a training run, is outstanding at any time, whatever the order of the
\* file selections and train clicks.
C14_OneOutstanding == Cardinality(Outstanding) <= 1

\* C15: after any sequence of uploads and training runs, overlapping file
\* reads included, at most one dataset and at most one model are allocated and
\* not disposed.
C15_OneLive ==
    /\ Cardinality(live.datasets) <= 1
    /\ Cardinality(live.models) <= 1

ErrorMessages == {"Error", "Training error", "Evaluation error"}

Last(xs) == xs[Len(xs)]

\* the calls of the handlers that have finished and in which a stage failed
FailedCalls ==
    {uploads[u] : u \in {u \in 1..Len(uploads) :
                            uploads[u].at = "done" /\ uploads[u].failed # "none"}}
    \cup {[at |-> runs[r].at, failed |-> runs[r].failed, stages |-> runs[r].stages,
           log |-> runs[r].log, made |-> runs[r].made] :
             r \in {r \in 1..Len(runs) :
                      runs[r].at = "done" /\ runs[r].failed # "none"}}

\* C16: after a failure in reading, preprocessing, training, prediction or
\* evaluation the handler starts no further stage, and the last progress
\* message it showed is the error message, not a success message.
C16_FailureSurfaced ==
    \A c \in FailedCalls :
        /\ Last(c.stages) = c.failed
        /\ Last(c.log) \in ErrorMessages

\* ten symbols and a cell for every (date, symbol)
FullPanel ==
    /\ Len(stockSymbols) = TenStocks
    /\ \A d \in Range(dateIndex) : \A s \in Range(stockSymbols) :
           normalizedData[<<d, s>>].has

\* window k, which starts at i (0-based), is made of the dates i .. i + 15:
\* features of dates i .. i + 11, base date i + 12, future dates i + 13 .. i + 15
WindowDatesOf(k, i) ==
    LET n == Len(stockSymbols)
    IN  /\ Len(sequences[k]) = sequenceLength
        /\ \A j \in 0..(sequenceLength - 1) : \A s \in 1..n :
               LET c == normalizedData[<<dateIndex[i + j + 1], stockSymbols[s]>>]
               IN  c.has => /\ sequences[k][j + 1][2 * s - 1] = c.Open
                            /\ sequences[k][j + 1][2 * s] = c.Close
        /\ \A offset \in 1..predictionHorizon : \A s \in 1..n :
               targets[k][(offset - 1) * n + s] =
                   TargetBit(normalizedData[<<dateIndex[i + sequenceLength + offset + 1],
                                              stockSymbols[s]>>],
                             baseClosePrice(normalizedData,
                                            dateIndex[i + sequenceLength + 1],
                                            stockSymbols[s]))

\* C17 as stated: the windows are those that start at an i with
\* i + 12 + 3 <= len(dates), one for every such i on a full panel, each made of
\* the dates i .. i + 15.
C17_StartsUpToLength ==
    Preprocessed =>
        /\ \A k \in 1..Len(starts) :
               /\ starts[k] >= 0
               /\ starts[k] + sequenceLength + predictionHorizon <= Len(dateIndex)
               /\ WindowDatesOf(k, starts[k])
        /\ FullPanel =>
               \A i \in 0..Len(dateIndex) :
                   i + sequenceLength + predictionHorizon <= Len(dateIndex)
                       => i \in Range(starts)

\* C17: the window start advances by one date; the windows are those that
\* start at an i with i + 12 + 3 < len(dates), one for every such i on a full
\* panel and none for another i, each made of the dates i .. i + 15.
C17_StartsBelowLength ==
    Preprocessed =>
        /\ \A k \in 1..Len(starts) :
               /\ starts[k] >= 0
               /\ starts[k] + sequenceLength + predictionHorizon < Len(dateIndex)
               /\ WindowDatesOf(k, starts[k])
        /\ FullPanel =>
               \A i \in 0..Len(dateIndex) :
                   i + sequenceLength + predictionHorizon < Len(dateIndex)
                       => i \in Range(starts)

\* a full panel of 17 dates: windows start at 0 and at 1, and at no other date
C17_Witness ==
    /\ Preprocessed
    /\ FullPanel
    /\ Len(dateIndex) = sequenceLength + predictionHorizon + 2
    /\ starts = <<0, 1>>

\* every future cell of the window that starts at i is present
FuturesPresent(i) ==
    \A offset \in 1..predictionHorizon : \A s \in Range(stockSymbols) :
        normalizedData[<<dateIndex[i + sequenceLength + offset + 1], s>>].has

\* window k holds (0, 0) where the cell of an input date is missing
ZeroFilled(k, i) ==
    \A j \in 0..(sequenceLength - 1) : \A s \in 1..Len(stockSymbols) :
        ~normalizedData[<<dateIndex[i + j + 1], stockSymbols[s]>>].has
            => /\ sequences[k][j + 1][2 * s - 1] = Num(0)
               /\ sequences[k][j + 1][2 * s] = Num(0)

\* C18: with ten symbols, a window whose input dates lack a (date, symbol)
\* cell is kept, with (0, 0) in the place of the missing cell: missing input
\* data does not reduce the number of sequences.
C18_MissingCellKept ==
    (Preprocessed /\ Len(stockSymbols) = TenStocks) =>
        \A i \in 0..(Len(dateIndex) - sequenceLength - predictionHorizon - 1) :
            FuturesPresent(i) =>
                \E k \in 1..Len(starts) : starts[k] = i /\ ZeroFilled(k, i)

\* a cell for every (date, symbol), whatever the number of symbols
CompletePanel ==
    \A d \in Range(dateIndex) : \A s \in Range(stockSymbols) :
        normalizedData[<<d, s>>].has

\* C19: for every number S >= 1 of symbols, an accepted window has 12 feature
\* vectors of length 2S and a target of 3S bits, every window of a complete
\* panel is accepted, and the tensors of the dataset have the shapes
\* [count, 12, 2S] and [count, 3S].
C19_ShapesFollowSymbols ==
    (Preprocessed /\ Len(stockSymbols) >= 1) =>
        LET S == Len(stockSymbols)
        IN  /\ \A k \in 1..Len(starts) :
                   /\ Len(sequences[k]) = sequenceLength
                   /\ \A j \in 1..Len(sequences[k]) : Len(sequences[k][j]) = 2 * S
                   /\ Len(targets[k]) = predictionHorizon * S
            /\ CompletePanel => Range(LoopStarts(dateIndex)) \subseteq Range(starts)
            /\ trainData.X_train.shape = <<TrainCount, sequenceLength, 2 * S>>
            /\ trainData.y_train.shape = <<TrainCount, predictionHorizon * S>>
            /\ trainData.X_test.shape = <<TestCount, sequenceLength, 2 * S>>
            /\ trainData.y_test.shape = <<TestCount, predictionHorizon * S>>

\* the bit of the window that starts at i (0-based) for the symbol at 1-based
\* position s and the offset d: is the close of date i + 12 + d above the
\* close of the base date i + 12
BitOf(i, s, d) ==
    TargetBit(normalizedData[<<dateIndex[i + sequenceLength + d + 1], stockSymbols[s]>>],
              baseClosePrice(normalizedData, dateIndex[i + sequenceLength + 1],
                             stockSymbols[s]))

\* (test sample, day) pairs at which the thresholded prediction equals the bit
\* of the symbol at 0-based index s for the offset day + 1, the prediction read
\* at the flat index s + day * numSymbols
AgreeingEntries(s) ==
    {e \in (1..TestCount) \X (0..(daysAhead - 1)) :
        Above(accCall.predictions.values[e[1]][s + e[2] * Len(stockSymbols) + 1])
            = BitOf(TestStarts[e[1]], s + 1, e[2] + 1)}

\* C20: the builder puts the bit of (symbol index s, offset d) at the flat
\* index s + (d - 1) * numSymbols of a target, for any number of symbols, and
\* computeStockAccuracy reads the index s + day * numSymbols for day 0..2: the
\* accuracy of a symbol counts the predictions against the bits of that symbol.
C20_LayoutsAgree ==
    /\ Preprocessed =>
           \A i \in Range(LoopStarts(dateIndex)) :
               LET target == WindowTarget(normalizedData, stockSymbols, dateIndex, i)
                   n      == Len(stockSymbols)
               IN  \A s \in 0..(n - 1) : \A d \in 1..predictionHorizon :
                       target[s + (d - 1) * n + 1] = BitOf(i, s + 1, d)
    /\ pc = "evaluated" =>
           /\ ~accResult.threw
           /\ \A s \in 0..(Len(stockSymbols) - 1) :
                  accResult.accuracies[stockSymbols[s + 1]]
                      = Div(Num(Cardinality(AgreeingEntries(s))), Num(daysAhead * TestCount))

\* an evaluated test set in which two symbols move differently, and get
\* different accuracies from the same kind of prediction
C20_Witness ==
    /\ pc = "evaluated"
    /\ TestCount >= 1
    /\ \E s, t \in 1..Len(stockSymbols) : \E d \in 1..predictionHorizon :
           /\ BitOf(TestStarts[1], s, d) # BitOf(TestStarts[1], t, d)
           /\ ~NumEq(accResult.accuracies[stockSymbols[s]],
                     accResult.accuracies[stockSymbols[t]])

\* the positions of the rows of a (date, symbol)
RowsFor(date, symbol) ==
    {i \in 1..Len(rawData) : rawData[i].Date = date /\ rawData[i].Symbol = symbol}

\* C21: when several rows have the same (date, symbol), the pivot holds the
\* open and close of the last of them in input order.
C21_LastRowWins ==
    Preprocessed =>
        \A d \in Range(dateIndex) : \A s \in Range(stockSymbols) :
            LET hits == RowsFor(d, s)
            IN  hits # {} =>
                    LET last == CHOOSE i \in hits : \A j \in hits : j <= i
                    IN  pivotedData[<<d, s>>] =
                            Cell(parseFloat(rawData[last].Open),
                                 parseFloat(rawData[last].Close))

\* xs has no element twice and is in the order of sort()
SortedDistinct(xs) ==
    \A i \in 1..Len(xs) : \A j \in (i + 1)..Len(xs) :
        xs[i] # xs[j] /\ ~SortsBefore(xs[j], xs[i])

\* C22: the symbol list is the sorted set of the distinct symbols of the rows
\* and the date index the sorted set of their distinct dates; in every feature
\* vector the symbol at sorted index s (0-based) has its open at position 2s
\* and its close at position 2s + 1.
C22_SortedSymbolsAndDates ==
    Preprocessed =>
        /\ Range(stockSymbols) = {rawData[i].Symbol : i \in 1..Len(rawData)}
        /\ SortedDistinct(stockSymbols)
        /\ Range(dateIndex) = {rawData[i].Date : i \in 1..Len(rawData)}
        /\ SortedDistinct(dateIndex)
        /\ \A k \in 1..Len(starts) : \A j \in 1..sequenceLength :
               \A s \in 0..(Len(stockSymbols) - 1) :
                   LET c == normalizedData[<<dateIndex[starts[k] + j], stockSymbols[s + 1]>>]
                   IN  /\ sequences[k][j][2 * s + 1] = (IF c.has THEN c.Open ELSE Num(0))
                       /\ sequences[k][j][2 * s + 2] = (IF c.has THEN c.Close ELSE Num(0))

\* a file of ten symbols written in descending order, with a window
C22_Witness ==
    /\ Preprocessed
    /\ Len(stockSymbols) = TenStocks
    /\ Len(starts) >= 1
    /\ rawData[1].Symbol = stockSymbols[TenStocks]
    /\ rawData[1].Date = dateIndex[Len(dateIndex)]

\* C23: in every state of the app controller the train button is enabled only
\* if a dataset is loaded (trainData is not null).
C23_EnabledOnlyWithData == ~trainBtn.disabled => app.trainData # 0

\* the training runs that are awaiting model.train
Training == {r \in 1..Len(runs) : runs[r].at = "training"}

\* C24: while a training run is under way the dataset and the tf model it was
\* started with are not disposed and are still the ones the app refers to, so
\* that predict and the evaluation use the dataset that was passed to train.
C24_RunKeepsItsData ==
    \A r \in Training :
        /\ runs[r].data \in live.datasets
        /\ runs[r].tf \in live.models
        /\ app.trainData = runs[r].data
        /\ gru[app.model] = runs[r].tf

\* upload u fails in this step
UploadFails(u) ==
    /\ u \in 1..Len(uploads)
    /\ uploads[u].at = "reading"
    /\ uploads'[u].at = "done"
    /\ uploads'[u].failed # "none"

\* C25: when an upload fails, handleFileUpload ends with trainData and
\* predictions null, a new GRUModel without tf model, the tensors and the model
\* the app referred to disposed, the train button disabled and the error
\* message shown.
C25_FailedUploadCleans ==
    [][(\E u \in 1..MaxUploads : UploadFails(u)) =>
          /\ app'.trainData = 0
          /\ app'.predictions = 0
          /\ app'.model # app.model
          /\ gru'[app'.model] = 0
          /\ app.trainData \notin live'.datasets
          /\ gru[app.model] \notin live'.models
          /\ app.predictions \notin live'.predictions
          /\ trainBtn'.disabled
          /\ progress' = "Error"]_vars

\* an upload has failed after another one had loaded a dataset and a run had
\* trained and predicted on it: nothing is live and the error is shown
C25_Witness ==
    /\ \E u \in 1..Len(uploads) : uploads[u].at = "done" /\ uploads[u].failed # "none"
    /\ MadeDatasets # {}
    /\ MadeModels # {}
    /\ MadePredictions # {}
    /\ live = [datasets |-> {}, models |-> {}, predictions |-> {}]
    /\ app.trainData = 0
    /\ trainBtn.disabled
    /\ progress = "Error"

\* C26: a training run started with a loaded dataset keeps the train button
\* disabled for its whole duration, until its last step enables it again.
C26_DisabledWhileTraining == Training # {} => trainBtn.disabled

====
